---- MODULE Spec2Model ----
(***************************************************************************)
(* REST-to-MCP gateway core: the endpoint registry, the request dispatcher *)
(* (RestToMcpAdapter.handle_request), the execution context and the        *)
(* failure taxonomy, modelled from rest_to_mcp/{adapter,models,endpoints,  *)
(* errors,config}.py.                                                      *)
(*                                                                         *)
(* A coroutine runs atomically between two suspensions, so one dispatch is *)
(* two steps: handle_request up to the await on the HTTP client, and the   *)
(* rest once the client has answered.                                      *)
(***************************************************************************)
EXTENDS Integers, Sequences, FiniteSets, TLC

VARIABLES
    endpoints,      \* adapter.endpoints: the registry, a dict in insertion order
    constructed,    \* RestToMcpAdapter.__init__ has run
    pc,             \* "idle" | "awaiting" | "done": where the dispatch stands
    request,        \* the JsonRpcRequest being dispatched
    context,        \* the ExecutionContext held by the dispatch / returned
    response,       \* the envelope handle_request returned
    raised,         \* the exception that left handle_request ("" when none)
    frame,          \* locals of the suspended _call_tool (name, arguments)
    sent,           \* the Transport Client invocations of this dispatch
    answers,        \* what the Transport Client answered in this dispatch
    heap,           \* the ExecutionContext instances alive, by identity
    last,           \* the latest call on an ExecutionContext and how it ended
    val_endpoint,   \* a RestEndpoint descriptor handled on its own
    val_arguments,  \* the argument map given to it
    val_errors,     \* what validate_arguments returned for them
    val_tool,       \* what to_mcp_tool returned for the descriptor
    val_call,       \* what _call_tool, called directly, issued or raised
    tasks           \* the coroutines running handle_request side by side

vars ==
    <<endpoints, constructed, pc, request, context, response, raised, frame, sent,
      answers, heap, last, val_endpoint, val_arguments, val_errors, val_tool, val_call,
      tasks>>

\* the adapter and its dispatch
gateway_vars ==
    <<endpoints, constructed, pc, request, context, response, raised, frame, sent,
      answers>>

\* ExecutionContext objects handled on their own
context_vars == <<heap, last>>

\* a RestEndpoint descriptor handled on its own
validation_vars == <<val_endpoint, val_arguments, val_errors, val_tool, val_call>>

\* the frames of the coroutines running handle_request side by side
task_vars == <<tasks>>

-----------------------------------------------------------------------------
(* Bounds of the model.                                                    *)

\* How many catalog descriptors an adapter may be given.
MaxEndpoints == 5

\* How many ExecutionContext instances are created.
MaxContexts == 4

\* How many of them are created from a request.
MaxRoots == 1

-----------------------------------------------------------------------------
(* Strings.  A str whose content matters only up to surrounding whitespace *)
(* is its whitespace-free core and whether whitespace surrounds it.        *)

T(s)    == [pad |-> FALSE, text |-> s]
Pad(s)  == [pad |-> TRUE, text |-> s]

\* str.strip()
strip(t) == [pad |-> FALSE, text |-> t.text]

\* `not s` for a str
is_empty(t) == t.text = "" /\ ~t.pad

\* `not s or not s.strip()`
is_blank(t) == is_empty(t) \/ is_empty(strip(t))

(* Argument values are spelled out character by character: the guard       *)
(* parses them.                                                            *)
Digits == <<"0", "1", "2", "3", "4", "5", "6", "7", "8", "9">>

IsDigit(c) == \E i \in 1..10 : Digits[i] = c

DigitVal(c) == (CHOOSE i \in 1..10 : Digits[i] = c) - 1

RECURSIVE lstrip(_)
lstrip(s) == IF s # <<>> /\ Head(s) = " " THEN lstrip(Tail(s)) ELSE s

RECURSIVE rstrip(_)
rstrip(s) ==
    IF s # <<>> /\ s[Len(s)] = " " THEN rstrip(SubSeq(s, 1, Len(s) - 1)) ELSE s

strip_chars(s) == rstrip(lstrip(s))

\* A JSON value of an argument: a string, null, or the float Infinity.
Str(s)   == [t |-> "str", s |-> s]
PyNone   == [t |-> "none", s |-> <<>>]
PyInf    == [t |-> "float", s |-> <<"i", "n", "f">>]

\* str(value)
str(v) == IF v.t = "none" THEN <<"N", "o", "n", "e">> ELSE v.s

RECURSIVE DigitsValue(_, _)
DigitsValue(s, acc) ==
    IF s = <<>> THEN acc ELSE DigitsValue(Tail(s), 10 * acc + DigitVal(Head(s)))

\* int(value): the integer, or the exception int() raises.
\*   str   -> optional whitespace, optional sign, decimal digits; else ValueError
\*   None  -> TypeError
\*   inf   -> OverflowError
int(v) ==
    IF v.t = "none" THEN [exc |-> "TypeError", n |-> 0]
    ELSE IF v.t = "float" THEN [exc |-> "OverflowError", n |-> 0]
    ELSE LET body   == strip_chars(v.s)
             signed == body # <<>> /\ Head(body) \in {"-", "+"}
             digits == IF signed THEN Tail(body) ELSE body
             ok     == digits # <<>> /\ \A i \in 1..Len(digits) : IsDigit(digits[i])
             mag    == DigitsValue(digits, 0)
         IN  IF ~ok THEN [exc |-> "ValueError", n |-> 0]
             ELSE [exc |-> "", n |-> IF signed /\ Head(body) = "-" THEN 0 - mag ELSE mag]

\* A dict[str, Any] in insertion order: a sequence of items with distinct keys.
Keys(d) == {d[i].k : i \in 1..Len(d)}

Has(d, key) == key \in Keys(d)

Get(d, key) == d[CHOOSE i \in 1..Len(d) : d[i].k = key].v

Range(s) == {s[i] : i \in 1..Len(s)}

\* Optional values: <<>> is None, <<x>> is x.
None == <<>>
Some(x) == <<x>>

-----------------------------------------------------------------------------
(* config.py                                                               *)

HTTP_ERROR_THRESHOLD == 200

HTTP_TIMEOUT_SECONDS == 30

-----------------------------------------------------------------------------
(* errors.py, models.py: the failure classes.                              *)

\* Direct base class of each exception class the core raises.
BaseOf(cls) ==
    CASE cls = "ContextError"        -> "ContractViolation"
      [] cls = "ToolValidationError" -> "ContractViolation"
      [] cls = "ToolTimeoutError"    -> "TransportFailure"
      [] cls = "ContractViolation"   -> "GatewayFailure"
      [] cls = "UpstreamFailure"     -> "GatewayFailure"
      [] cls = "TransportFailure"    -> "GatewayFailure"
      [] cls = "ConfigurationError"  -> "GatewayFailure"
      [] cls = "GatewayFailure"      -> "Exception"
      [] OTHER                       -> "Exception"

RECURSIVE IsInstance(_, _)
IsInstance(cls, base) ==
    \/ cls = base
    \/ cls # "Exception" /\ IsInstance(BaseOf(cls), base)

\* The four kinds of the taxonomy.
TaxonomyKinds ==
    {"ContractViolation", "UpstreamFailure", "TransportFailure", "ConfigurationError"}

-----------------------------------------------------------------------------
(* models.py: JSON-RPC error codes and envelopes.                          *)

PARSE_ERROR      == -32700
INVALID_REQUEST  == -32600
METHOD_NOT_FOUND == -32601
INVALID_PARAMS   == -32602
INTERNAL_ERROR   == -32603

\* make_error_response that answers under a null id
make_error_response_null_id(request_id, code, message, data) ==
    [kind |-> "error", id |-> None, code |-> code, message |-> message, data |-> data]

make_error_response(request_id, code, message, data) ==
    [kind |-> "error", id |-> request_id, code |-> code, message |-> message,
     data |-> data]

make_success_response(request_id, result) ==
    [kind |-> "success", id |-> request_id, result |-> result]

-----------------------------------------------------------------------------
(* models.py: ExecutionContext.  Every operation yields the context it     *)
(* returns, or the exception it raises.                                    *)

Ok(ctx)     == [exc |-> "", ctx |-> ctx]
Raise(cls)  == [exc |-> cls, ctx |-> <<>>]

\* ExecutionContext.__init__(..., _trust_caller=True).  created_at is
\* datetime.now(): 0 stands for the reading of the clock at construction.
NewContext(request_id, method) ==
    [request_id |-> request_id, method |-> method, tool_name |-> None,
     arguments |-> <<>>, results |-> <<>>, created_at |-> 0, sealed |-> FALSE]

\* from_request that does not look at the method
from_request_any_method(req) ==
    IF ~req.id.int /\ is_blank(req.id) THEN Raise("ContextError")
    ELSE Ok(NewContext(req.id, req.method))

from_request(req) ==
    IF ~req.id.int /\ is_blank(req.id) THEN Raise("ContextError")
    ELSE IF is_blank(req.method) THEN Raise("ContextError")
    ELSE Ok(NewContext(req.id, req.method))

\* with_tool_call that binds again over an existing binding
with_tool_call_rebinding(ctx, name, arguments) ==
    IF ctx.sealed THEN Raise("ContextError")
    ELSE IF is_blank(name) THEN Raise("ContextError")
    ELSE Ok([NewContext(ctx.request_id, ctx.method) EXCEPT
                !.tool_name = Some(strip(name)),
                !.arguments = arguments,
                !.results = ctx.results,
                !.created_at = ctx.created_at])

with_tool_call(ctx, name, arguments) ==
    IF ctx.sealed THEN Raise("ContextError")
    ELSE IF is_blank(name) THEN Raise("ContextError")
    ELSE IF ctx.tool_name # None THEN Raise("ContextError")
    ELSE Ok([NewContext(ctx.request_id, ctx.method) EXCEPT
                !.tool_name = Some(strip(name)),
                !.arguments = arguments,
                !.results = ctx.results,
                !.created_at = ctx.created_at])

\* with_result that does not ask for a bound tool
with_result_without_tool(ctx, result) ==
    IF ctx.sealed THEN Raise("ContextError")
    ELSE IF result = None THEN Raise("ContextError")
    ELSE Ok([NewContext(ctx.request_id, ctx.method) EXCEPT
                !.tool_name = ctx.tool_name,
                !.arguments = ctx.arguments,
                !.results = Append(ctx.results, result[1]),
                !.created_at = ctx.created_at])

\* with_result that puts the new result first
with_result_prepending(ctx, result) ==
    IF ctx.sealed THEN Raise("ContextError")
    ELSE IF ctx.tool_name = None THEN Raise("ContextError")
    ELSE IF result = None THEN Raise("ContextError")
    ELSE Ok([NewContext(ctx.request_id, ctx.method) EXCEPT
                !.tool_name = ctx.tool_name,
                !.arguments = ctx.arguments,
                !.results = <<result[1]>> \o ctx.results,
                !.created_at = ctx.created_at])

with_result(ctx, result) ==
    IF ctx.sealed THEN Raise("ContextError")
    ELSE IF ctx.tool_name = None THEN Raise("ContextError")
    ELSE IF result = None THEN Raise("ContextError")
    ELSE Ok([NewContext(ctx.request_id, ctx.method) EXCEPT
                !.tool_name = ctx.tool_name,
                !.arguments = ctx.arguments,
                !.results = Append(ctx.results, result[1]),
                !.created_at = ctx.created_at])

\* seal() that hands the context back as it is
seal_unchanged(ctx) == ctx

seal(ctx) == [ctx EXCEPT !.sealed = TRUE]

\* discard_results that leaves the new instance its own creation time
discard_results_new_clock(ctx) ==
    IF ctx.sealed THEN Raise("ContextError")
    ELSE Ok([NewContext(ctx.request_id, ctx.method) EXCEPT
                !.tool_name = ctx.tool_name,
                !.arguments = ctx.arguments,
                !.results = <<>>])

discard_results(ctx) ==
    IF ctx.sealed THEN Raise("ContextError")
    ELSE Ok([NewContext(ctx.request_id, ctx.method) EXCEPT
                !.tool_name = ctx.tool_name,
                !.arguments = ctx.arguments,
                !.results = <<>>,
                !.created_at = ctx.created_at])

(* ExecutionContext objects.  The heap holds the instances by identity: a  *)
(* with_* method constructs a new instance and leaves its receiver alone,  *)
(* seal() sets the flag on the receiver and returns the receiver.  A call  *)
(* ends with the reference it returned, or the exception it raised.        *)

\* `new_ctx = ExecutionContext(...); ...; return new_ctx`.  The clock has
\* moved on at every construction; a created_at copied from the receiver
\* replaces the reading.
Constructed(h, ctx) ==
    LET clock == Len(h) + 1
        made  == IF ctx.created_at = 0 THEN [ctx EXCEPT !.created_at = clock] ELSE ctx
    IN  [heap |-> Append(h, made), exc |-> "", ref |-> Len(h) + 1]

\* `raise ContextError(...)`: nothing is constructed
Failed(h, cls) == [heap |-> h, exc |-> cls, ref |-> 0]

Outcome(h, attempt) ==
    IF attempt.exc # "" THEN Failed(h, attempt.exc) ELSE Constructed(h, attempt.ctx)

\* ExecutionContext(request_id, method, _trust_caller=...)
ExecutionContext_init(h, request_id, method, _trust_caller) ==
    IF ~_trust_caller THEN Failed(h, "ContextError")
    ELSE Constructed(h, NewContext(request_id, method))

\* from_request that hands out one instance per request identity
ExecutionContext_from_request_interned(h, req) ==
    LET same == {i \in 1..Len(h) : h[i].request_id = req.id /\ h[i].method = req.method}
    IN  IF from_request(req).exc = "" /\ same # {}
        THEN [heap |-> h, exc |-> "", ref |-> CHOOSE i \in same : \A j \in same : i <= j]
        ELSE Outcome(h, from_request(req))

ExecutionContext_from_request(h, req) == Outcome(h, from_request(req))

ExecutionContext_with_tool_call(h, self, name, arguments) ==
    Outcome(h, with_tool_call(h[self], name, arguments))

ExecutionContext_with_result(h, self, result) ==
    Outcome(h, with_result(h[self], result))

\* discard_results that empties the receiver and returns it
ExecutionContext_discard_results_in_place(h, self) ==
    IF h[self].sealed THEN Failed(h, "ContextError")
    ELSE [heap |-> [h EXCEPT ![self].results = <<>>], exc |-> "", ref |-> self]

ExecutionContext_discard_results(h, self) ==
    Outcome(h, discard_results(h[self]))

\* seal() that returns a sealed copy and leaves the receiver open
ExecutionContext_seal_copy(h, self) == Constructed(h, seal(h[self]))

\* `self._sealed = True; return self`
ExecutionContext_seal(h, self) ==
    [heap |-> [h EXCEPT ![self] = seal(h[self])], exc |-> "", ref |-> self]

\* The class defines neither with_reduced_results nor result_count and has
\* __slots__ and no __getattr__: looking either up on an instance raises
\* AttributeError.
ExecutionContext_with_reduced_results(h, self, n) == Failed(h, "AttributeError")

ExecutionContext_result_count(h, self) == Failed(h, "AttributeError")

\* A call on an ExecutionContext: the method, the receiver (0 for the
\* classmethod), the arguments given, and how it ended.
Call(op, self, req, name, arguments, result, n, outcome) ==
    [op |-> op, self |-> self, request |-> req, name |-> name, arguments |-> arguments,
     result |-> result, n |-> n, exc |-> outcome.exc, ref |-> outcome.ref]

NoCall == Call("", 0, None, None, <<>>, None, 0, Failed(<<>>, ""))

-----------------------------------------------------------------------------
(* endpoints.py: RestEndpoint.                                             *)

MutatingVerbs == {"POST", "PUT", "PATCH"}

\* One piece of a path template: literal text, a {param} placeholder, or
\* the text substituted for a placeholder.
Lit(s)  == [kind |-> "lit", s |-> s, v |-> <<>>]
Hole(p) == [kind |-> "hole", s |-> p, v |-> <<>>]
Val(cs) == [kind |-> "val", s |-> "", v |-> cs]

RestEndpoint(name, path, method, path_params, query_params, body_params, base_url) ==
    [name |-> T(name), path |-> path, method |-> method,
     path_params |-> path_params, query_params |-> query_params,
     body_params |-> body_params, base_url |-> base_url]

\* The errors validate_arguments reports.
UnknownArgument(arg)        == [kind |-> "Unknown argument", param |-> arg]
MissingPathParameter(param) == [kind |-> "Missing required path parameter", param |-> param]
EmptyPathParameter(param)   == [kind |-> "Path parameter cannot be empty", param |-> param]
MissingBodyParameter(param) == [kind |-> "Missing required body parameter", param |-> param]

\* known_params that leaves the query parameters out
known_params_without_query(endpoint) ==
    Range(endpoint.path_params) \cup Range(endpoint.body_params)

known_params(endpoint) ==
    Range(endpoint.path_params) \cup Range(endpoint.query_params)
        \cup Range(endpoint.body_params)

\* The loop over the arguments: one error per key outside known_params.
UnknownErrors(endpoint, arguments) ==
    LET bad == SelectSeq(arguments, LAMBDA it : it.k \notin known_params(endpoint))
    IN  [i \in 1..Len(bad) |-> UnknownArgument(bad[i].k)]

\* the path loop that asks for presence only
PathErrors_presence_only(endpoint, arguments) ==
    LET bad == SelectSeq(endpoint.path_params, LAMBDA p : ~Has(arguments, p))
    IN  [i \in 1..Len(bad) |-> MissingPathParameter(bad[i])]

\* The loop over path_params: missing, or blank once converted and stripped.
PathErrors(endpoint, arguments) ==
    LET failing(p) == \/ ~Has(arguments, p)
                      \/ strip_chars(str(Get(arguments, p))) = <<>>
        bad == SelectSeq(endpoint.path_params, failing)
    IN  [i \in 1..Len(bad) |->
            IF ~Has(arguments, bad[i]) THEN MissingPathParameter(bad[i])
            ELSE EmptyPathParameter(bad[i])]

\* the body loop run for every verb
BodyErrors_any_verb(endpoint, arguments) ==
    LET bad == SelectSeq(endpoint.body_params, LAMBDA p : ~Has(arguments, p))
    IN  [i \in 1..Len(bad) |-> MissingBodyParameter(bad[i])]

\* The loop over body_params, for mutating verbs only.
BodyErrors(endpoint, arguments) ==
    IF endpoint.method \in MutatingVerbs
    THEN LET bad == SelectSeq(endpoint.body_params, LAMBDA p : ~Has(arguments, p))
         IN  [i \in 1..Len(bad) |-> MissingBodyParameter(bad[i])]
    ELSE <<>>

\* validate_arguments that returns at the first failing class
validate_arguments_first_class(endpoint, arguments) ==
    IF UnknownErrors(endpoint, arguments) # <<>> THEN UnknownErrors(endpoint, arguments)
    ELSE IF PathErrors(endpoint, arguments) # <<>> THEN PathErrors(endpoint, arguments)
    ELSE BodyErrors(endpoint, arguments)

validate_arguments(endpoint, arguments) ==
    UnknownErrors(endpoint, arguments) \o PathErrors(endpoint, arguments)
        \o BodyErrors(endpoint, arguments)

\* dict[key] = value on a dict in insertion order.
Put(d, key, value) ==
    IF Has(d, key)
    THEN [i \in 1..Len(d) |-> IF d[i].k = key THEN [k |-> key, v |-> value] ELSE d[i]]
    ELSE Append(d, [k |-> key, v |-> value])

RECURSIVE PutAll(_, _, _)
PutAll(d, keys, value) ==
    IF keys = <<>> THEN d ELSE PutAll(Put(d, Head(keys), value), Tail(keys), value)

\* to_mcp_tool that requires the body parameters whatever the verb
to_mcp_tool_body_required(endpoint) ==
    LET properties ==
            PutAll(PutAll(PutAll(<<>>, endpoint.path_params,
                                 [type |-> "string", description |-> "Path parameter"]),
                          endpoint.query_params,
                          [type |-> "string", description |-> "Query parameter"]),
                   endpoint.body_params,
                   [type |-> "string", description |-> "Body field"])
        required == endpoint.path_params \o endpoint.body_params
    IN  [name |-> endpoint.name,
         inputSchema |-> [type |-> "object", properties |-> properties,
                          required |-> required]]

to_mcp_tool(endpoint) ==
    LET properties ==
            PutAll(PutAll(PutAll(<<>>, endpoint.path_params,
                                 [type |-> "string", description |-> "Path parameter"]),
                          endpoint.query_params,
                          [type |-> "string", description |-> "Query parameter"]),
                   endpoint.body_params,
                   [type |-> "string", description |-> "Body field"])
        required ==
            endpoint.path_params \o
                (IF endpoint.method \in MutatingVerbs THEN endpoint.body_params ELSE <<>>)
    IN  [name |-> endpoint.name,
         inputSchema |-> [type |-> "object", properties |-> properties,
                          required |-> required]]

\* JSONPLACEHOLDER_ENDPOINTS, in catalog order.
JSONPLACEHOLDER_ENDPOINTS ==
    << RestEndpoint("get_posts", <<Lit("/posts")>>, "GET",
                    <<>>, <<"userId">>, <<>>, None),
       RestEndpoint("get_post", <<Lit("/posts/"), Hole("id")>>, "GET",
                    <<"id">>, <<>>, <<>>, None),
       RestEndpoint("create_post", <<Lit("/posts")>>, "POST",
                    <<>>, <<>>, <<"title", "body", "userId">>, None),
       RestEndpoint("update_post", <<Lit("/posts/"), Hole("id")>>, "PUT",
                    <<"id">>, <<>>, <<"title", "body", "userId">>, None),
       RestEndpoint("delete_post", <<Lit("/posts/"), Hole("id")>>, "DELETE",
                    <<"id">>, <<>>, <<>>, None),
       RestEndpoint("get_comments", <<Lit("/posts/"), Hole("postId"), Lit("/comments")>>,
                    "GET", <<"postId">>, <<>>, <<>>, None),
       RestEndpoint("get_users", <<Lit("/users")>>, "GET",
                    <<>>, <<>>, <<>>, None),
       RestEndpoint("get_user", <<Lit("/users/"), Hole("id")>>, "GET",
                    <<"id">>, <<>>, <<>>, None) >>

\* A descriptor a caller builds for itself and hands to the adapter: a GET
\* that declares a body parameter (optional under validate_arguments).
CALLER_ENDPOINTS ==
    << RestEndpoint("search_posts", <<Lit("/posts/search")>>, "GET",
                    <<>>, <<>>, <<"title">>, None) >>

-----------------------------------------------------------------------------
(* adapter.py: RestToMcpAdapter, the registry.                             *)

Names(eps) == {eps[i].name : i \in 1..Len(eps)}

\* self.endpoints[name]
Lookup(eps, name) == eps[CHOOSE i \in 1..Len(eps) : eps[i].name = name]

\* self.endpoints[endpoint.name] = endpoint
register_endpoint(eps, endpoint) ==
    IF endpoint.name \in Names(eps)
    THEN [i \in 1..Len(eps) |-> IF eps[i].name = endpoint.name THEN endpoint ELSE eps[i]]
    ELSE Append(eps, endpoint)

\* __init__: register every endpoint of the list, in order.
RECURSIVE RegisterAll(_, _)
RegisterAll(eps, list) ==
    IF list = <<>> THEN eps
    ELSE RegisterAll(register_endpoint(eps, Head(list)), Tail(list))

\* _list_tools that lists the newest registration first
_list_tools_newest_first(eps) == [i \in 1..Len(eps) |-> to_mcp_tool(eps[Len(eps) + 1 - i])]

_list_tools(eps) == [i \in 1..Len(eps) |-> to_mcp_tool(eps[i])]

-----------------------------------------------------------------------------
(* adapter.py: the destructive-operation guard.                            *)

\* What a guard or a builder yields: the exception it raises ("" if none)
\* and its value.
Yield(value)  == [exc |-> "", value |-> value]
Throw(cls)    == [exc |-> cls, value |-> <<>>]

Message(words, values) == [words |-> words, values |-> values]

GuardedTools == {T("delete_post"), T("update_post")}

\* the guard applied to every tool, whatever its name
_check_destructive_operation_any_tool(name, arguments) ==
    LET id_value == IF Has(arguments, "id") THEN Get(arguments, "id") ELSE Str(<<>>)
        id_int   == int(id_value)
    IN  IF id_int.exc \in {"ValueError", "TypeError"} \/ (id_int.exc = "" /\ id_int.n <= 0)
        THEN Yield(Some(Message(<<"Destructive operation ", "rejected">>, <<id_value>>)))
        ELSE IF id_int.exc # "" THEN Throw(id_int.exc)
        ELSE Yield(None)

_check_destructive_operation(name, arguments) ==
    IF name \in GuardedTools
    THEN LET id_value == IF Has(arguments, "id") THEN Get(arguments, "id") ELSE Str(<<>>)
             id_int   == int(id_value)
         IN  IF id_int.exc \in {"ValueError", "TypeError"}
             THEN Yield(Some(Message(
                    <<"Destructive operation ", "rejected", ": id=",
                      " is not a valid integer.">>, <<id_value>>)))
             ELSE IF id_int.exc # "" THEN Throw(id_int.exc)
             ELSE IF id_int.n <= 0
             THEN Yield(Some(Message(
                    <<"Destructive operation ", "rejected", ": id=", " is not valid. ",
                      "Post IDs must be positive integers.">>, <<id_value>>)))
             ELSE Yield(None)
    ELSE Yield(None)

-----------------------------------------------------------------------------
(* adapter.py: building the outbound call.                                 *)

Missing(params, arguments) == SelectSeq(params, LAMBDA p : ~Has(arguments, p))

\* text.replace(old, new) on text spelled out character by character, a
\* placeholder counting as one character
RECURSIVE replace(_, _, _)
replace(text, old, new) ==
    IF text = <<>> THEN <<>>
    ELSE (IF Head(text) = old THEN new ELSE <<Head(text)>>) \o replace(Tail(text), old, new)

\* path.replace("{param}", str(arguments[param])) for one declared parameter:
\* str.replace finds the placeholder wherever the text has it, in the
\* template and in what earlier replacements put in.
Substitute(path, param, arguments) ==
    [i \in 1..Len(path) |->
        IF path[i].kind = "hole" /\ path[i].s = param
        THEN Val(str(Get(arguments, param)))
        ELSE IF path[i].kind = "val"
        THEN Val(replace(path[i].v, "{" \o param \o "}", str(Get(arguments, param))))
        ELSE path[i]]

RECURSIVE SubstituteAll(_, _, _)
SubstituteAll(path, params, arguments) ==
    IF params = <<>> THEN path
    ELSE SubstituteAll(Substitute(path, Head(params), arguments), Tail(params), arguments)

_build_url(endpoint, arguments) ==
    IF Missing(endpoint.path_params, arguments) # <<>> THEN Throw("ContractViolation")
    ELSE Yield([base |-> endpoint.base_url,
                path |-> SubstituteAll(endpoint.path, endpoint.path_params, arguments)])

\* _build_query_params that passes on every argument that is no path parameter
_build_query_params_passthrough(endpoint, arguments) ==
    SelectSeq(arguments, LAMBDA item : item.k \notin Range(endpoint.path_params))

_build_query_params(endpoint, arguments) ==
    LET present == SelectSeq(endpoint.query_params, LAMBDA p : Has(arguments, p))
    IN  [i \in 1..Len(present) |-> [k |-> present[i], v |-> Get(arguments, present[i])]]

_build_body(endpoint, arguments) ==
    IF endpoint.body_params = <<>> THEN Yield(None)
    ELSE IF Missing(endpoint.body_params, arguments) # <<>> THEN Throw("ContractViolation")
    ELSE Yield(Some([i \in 1..Len(endpoint.body_params) |->
                        [k |-> endpoint.body_params[i],
                         v |-> Get(arguments, endpoint.body_params[i])]]))

\* _call_tool up to the await: the exception it raises, or the
\* client.request(...) it issues.
_call_tool_request(eps, name, arguments) ==
    IF name \notin Names(eps) THEN Throw("ContractViolation")
    ELSE LET endpoint == Lookup(eps, name)
             url      == _build_url(endpoint, arguments)
             query    == _build_query_params(endpoint, arguments)
             body     == _build_body(endpoint, arguments)
         IN  IF url.exc # "" THEN Throw(url.exc)
             ELSE IF body.exc # "" THEN Throw(body.exc)
             ELSE Yield([tool |-> name, method |-> endpoint.method, url |-> url.value,
                         params |-> IF query = <<>> THEN None ELSE Some(query),
                         json |-> body.value])

-----------------------------------------------------------------------------
(* adapter.py: what the Transport Client may answer, and _call_tool after  *)
(* the await.                                                              *)

\* client.request(...) returned an httpx.Response
HttpResponse(status, body) == [kind |-> "response", status |-> status, body |-> body]
\* client.request(...) raised httpx.TimeoutException
TimedOut == [kind |-> "timeout", status |-> 0, body |-> ""]
\* client.request(...) raised another httpx.HTTPError (connection refused, DNS, TLS)
HttpError == [kind |-> "http_error", status |-> 0, body |-> ""]

TextContent(source, body) == [type |-> "text", text |-> [source |-> source, body |-> body]]

ToolCallResult(content, isError) == [content |-> content, isError |-> isError]

\* response.json() decodes the body: a JSON document, text that is not JSON
\* (json.JSONDecodeError, caught), or bytes that are no text at all
\* (UnicodeDecodeError, which is not a JSONDecodeError).
_response_to_content(resp) ==
    CASE resp.body = "json"        -> Yield(<<TextContent("json.dumps", resp.body)>>)
      [] resp.body = "text"        -> Yield(<<TextContent("response.text", resp.body)>>)
      [] resp.body = "undecodable" -> Throw("UnicodeDecodeError")

\* _call_tool that lets a connectivity failure leave as TransportFailure
_call_tool_complete_raising(outcome) ==
    CASE outcome.kind = "response" ->
            LET content == _response_to_content(outcome)
            IN  IF content.exc # "" THEN Throw(content.exc)
                ELSE Yield(ToolCallResult(content.value,
                                          outcome.status >= HTTP_ERROR_THRESHOLD))
      [] outcome.kind = "timeout" -> Throw("ToolTimeoutError")
      [] outcome.kind = "http_error" -> Throw("TransportFailure")

\* _call_tool from the await on: the ToolCallResult, or the exception raised.
_call_tool_complete(outcome) ==
    CASE outcome.kind = "response" ->
            LET content == _response_to_content(outcome)
            IN  IF content.exc # "" THEN Throw(content.exc)
                ELSE Yield(ToolCallResult(content.value,
                                          outcome.status >= HTTP_ERROR_THRESHOLD))
      [] outcome.kind = "timeout" -> Throw("ToolTimeoutError")
      [] outcome.kind = "http_error" ->
            Yield(ToolCallResult(<<TextContent("HTTP error", "")>>, TRUE))

-----------------------------------------------------------------------------
(* adapter.py: dispatch.                                                   *)

\* Where a piece of handle_request leaves off: it returns (response,
\* context), raises exc, or is suspended on the client with `call` issued.
Returns(resp, ctx)  == [status |-> "return", response |-> Some(resp), context |-> Some(ctx),
                        exc |-> "", call |-> None]
Raises(cls)         == [status |-> "raise", response |-> None, context |-> None,
                        exc |-> cls, call |-> None]
Awaits(ctx, call)   == [status |-> "await", response |-> None, context |-> Some(ctx),
                        exc |-> "", call |-> Some(call)]

\* ToolCallParams that takes any value for arguments
ToolCallParams_any_arguments(payload) ==
    IF payload.name = None THEN Throw("ValidationError")
    ELSE Yield([name |-> payload.name[1], arguments |-> payload.arguments])

\* ToolCallParams(**request.params): name is required and arguments, when
\* given, must be a dict; the model declares no extra="forbid", so keys
\* besides the two are dropped.
ToolCallParams(payload) ==
    IF payload.name = None \/ ~payload.arguments_is_dict THEN Throw("ValidationError")
    ELSE Yield([name |-> payload.name[1], arguments |-> payload.arguments])

InitializeResult ==
    [protocolVersion |-> "2024-11-05",
     serverInfo |-> [name |-> "rest-to-mcp-adapter", version |-> "0.2.0"],
     capabilities |-> [tools |-> <<>>]]

ListToolsResult(tools) == [tools |-> tools]

\* The envelopes of the dispatcher, one per place that builds one.
MissingParamsResponse(req) ==
    make_error_response(req.id, INVALID_PARAMS,
        Message(<<"Missing params for tools/call">>, <<>>), None)

InvalidParamsResponse(req, error) ==
    make_error_response(req.id, INVALID_PARAMS,
        Message(<<"Invalid params: ">>, <<error>>), None)

UnknownToolResponse(req, name) ==
    make_error_response(req.id, INVALID_PARAMS,
        Message(<<"Unknown tool: ">>, <<name>>), None)

\* the validation envelope carrying the first error only
ValidationFailedResponse_first_error(req, name, validation_errors) ==
    make_error_response(req.id, INVALID_PARAMS,
        Message(<<"Tool '", "' validation failed: ">>, <<name, validation_errors>>),
        Some([tool |-> name, errors |-> <<Head(validation_errors)>>]))

ValidationFailedResponse(req, name, validation_errors) ==
    make_error_response(req.id, INVALID_PARAMS,
        Message(<<"Tool '", "' validation failed: ">>, <<name, validation_errors>>),
        Some([tool |-> name, errors |-> validation_errors]))

GuardRejectedResponse(req, name, guard_error) ==
    make_error_response(req.id, INVALID_PARAMS, guard_error, Some([tool |-> name]))

TimeoutResponse(req, tool_name, timeout_seconds) ==
    make_error_response(req.id, INTERNAL_ERROR,
        Message(<<"Tool '", "' timed out after ", "s. ",
                  "The external service did not respond in time.">>,
                <<tool_name, timeout_seconds>>),
        Some([tool |-> tool_name, timeout_seconds |-> timeout_seconds,
              failure_mode |-> "timeout"]))

\* the unknown-method envelope under the INVALID_REQUEST code
MethodNotFoundResponse_invalid_request(req) ==
    make_error_response(req.id, INVALID_REQUEST,
        Message(<<"Unknown method: ">>, <<req.method>>), None)

MethodNotFoundResponse(req) ==
    make_error_response(req.id, METHOD_NOT_FOUND,
        Message(<<"Unknown method: ">>, <<req.method>>), None)

\* _handle_tools_call up to the await inside _call_tool.
_handle_tools_call(eps, req, ctx) ==
    IF req.params = None
    THEN Returns(MissingParamsResponse(req), ctx)
    ELSE
    LET parsed == ToolCallParams(req.params[1]) IN
    IF parsed.exc # ""
    THEN Returns(InvalidParamsResponse(req, parsed.exc), ctx)
    ELSE
    LET params == parsed.value
        bound  == with_tool_call(ctx, params.name, params.arguments)
    IN
    IF bound.exc # "" THEN Raises(bound.exc)
    ELSE IF params.name \notin Names(eps)
    THEN Returns(UnknownToolResponse(req, params.name), bound.ctx)
    ELSE
    LET endpoint          == Lookup(eps, params.name)
        validation_errors == validate_arguments(endpoint, params.arguments)
    IN
    IF validation_errors # <<>>
    THEN Returns(ValidationFailedResponse(req, params.name, validation_errors), bound.ctx)
    ELSE
    LET guard_error == _check_destructive_operation(params.name, params.arguments) IN
    IF guard_error.exc # "" THEN Raises(guard_error.exc)
    ELSE IF guard_error.value # None
    THEN Returns(GuardRejectedResponse(req, params.name, guard_error.value[1]), bound.ctx)
    ELSE
    LET call == _call_tool_request(eps, params.name, params.arguments) IN
    IF call.exc # "" THEN Raises(call.exc)
    ELSE Awaits(bound.ctx, call.value)

\* _handle_tools_call that issues the call again after a timeout
_handle_tools_call_resume_retrying(req, ctx, call, outcome) ==
    LET call_result == _call_tool_complete(outcome) IN
    IF call_result.exc = "ToolTimeoutError"
    THEN Awaits(ctx, call)
    ELSE IF call_result.exc # "" THEN Raises(call_result.exc)
    ELSE
    LET grown == with_result(ctx, Some(call_result.value)) IN
    IF grown.exc # "" THEN Raises(grown.exc)
    ELSE Returns(make_success_response(req.id, call_result.value), grown.ctx)

\* _handle_tools_call once the client has answered.
_handle_tools_call_resume(req, ctx, call, outcome) ==
    LET call_result == _call_tool_complete(outcome) IN
    IF call_result.exc = "ToolTimeoutError"
    THEN Returns(TimeoutResponse(req, call.tool, HTTP_TIMEOUT_SECONDS), ctx)
    ELSE IF call_result.exc # "" THEN Raises(call_result.exc)
    ELSE
    LET grown == with_result(ctx, Some(call_result.value)) IN
    IF grown.exc # "" THEN Raises(grown.exc)
    ELSE Returns(make_success_response(req.id, call_result.value), grown.ctx)

\* The gateway boundary: `except GatewayFailure: raise`, anything else is
\* rewrapped as GatewayInternalFailure (a name errors.py does not define: it
\* is none of the classes of the taxonomy).
Boundary(step) ==
    IF step.status = "raise" /\ ~IsInstance(step.exc, "GatewayFailure")
    THEN Raises("GatewayInternalFailure")
    ELSE step

\* `return response, context.seal()`
Sealed(step) ==
    IF step.status = "return"
    THEN Returns(step.response[1], seal(step.context[1]))
    ELSE step

\* `match request.method`, with the context from_request created.
Route(eps, req, ctx) ==
    CASE req.method = T("initialize") ->
            Sealed(Returns(make_success_response(req.id, InitializeResult), ctx))
      [] req.method = T("tools/list") ->
            Sealed(Returns(make_success_response(req.id,
                                ListToolsResult(_list_tools(eps))),
                           ctx))
      [] req.method = T("tools/call") ->
            Sealed(_handle_tools_call(eps, req, ctx))
      [] OTHER ->
            Sealed(Returns(MethodNotFoundResponse(req), ctx))

\* handle_request up to its first suspension.
handle_request(eps, req) ==
    LET created == from_request(req) IN
    Boundary(IF created.exc # "" THEN Raises(created.exc)
             ELSE Route(eps, req, created.ctx))

\* handle_request from the await on.
handle_request_resume(req, ctx, call, outcome) ==
    Boundary(Sealed(_handle_tools_call_resume(req, ctx, call, outcome)))

-----------------------------------------------------------------------------
(* The requests, catalogs and client answers the model explores.           *)

\* JsonRpcRequest.id: int | str
Id(is_int, t) == [int |-> is_int, pad |-> t.pad, text |-> t.text]

RequestIds == {Id(TRUE, T("1")), Id(FALSE, T("req-1")), Id(FALSE, Pad(""))}

Methods ==
    {T("initialize"), T("tools/list"), T("tools/call"), T("unknown/method"), Pad("")}

ToolNames ==
    {T("get_posts"), T("get_post"), T("create_post"), T("update_post"),
     T("delete_post"), T("search_posts"), T("ghost"), Pad("get_post"), Pad(""), T("")}

IdValues ==
    {Str(<<"1">>), Str(<<"0">>), Str(<<"-", "5">>), Str(<<"a", "b", "c">>),
     Str(<<" ">>), Str(<<" ", "4", "2">>), PyNone, PyInf}

ArgKeyOrder == <<"id", "title", "body", "userId", "extra">>

DictOf(keys, id_value) ==
    LET ks == SelectSeq(ArgKeyOrder, LAMBDA k : k \in keys)
    IN  [i \in 1..Len(ks) |->
            [k |-> ks[i], v |-> IF ks[i] = "id" THEN id_value ELSE Str(<<"x">>)]]

ArgumentMaps == {DictOf(keys, v) : keys \in SUBSET Range(ArgKeyOrder), v \in IdValues}

\* request.params as a dict: the value under "name", the value under
\* "arguments", and the keys it carries besides those two.
Payload(name, arguments, is_dict) ==
    [name |-> name, arguments |-> arguments, arguments_is_dict |-> is_dict,
     undeclared |-> {}]

WithKeys(payload, keys) == [payload EXCEPT !.undeclared = keys]

\* request.params for tools/call: null, {} (no name), arguments that are no
\* dict, or a name with an argument map.
CallParams ==
    {None, Some(Payload(None, <<>>, TRUE)), Some(Payload(Some(T("get_post")), <<>>, FALSE))}
    \cup {Some(Payload(Some(n), a, TRUE)) : n \in ToolNames, a \in ArgumentMaps}

OtherParams == {None, Some(Payload(Some(T("get_posts")), <<>>, TRUE))}

JsonRpcRequest(id, method, params) == [id |-> id, method |-> method, params |-> params]

\* Every call payload under one id; under the other ids a few of them.
FewCallParams ==
    {None, Some(Payload(None, <<>>, TRUE)),
     Some(Payload(Some(T("get_posts")), <<>>, TRUE)),
     Some(Payload(Some(T("delete_post")), DictOf({"id"}, Str(<<"0">>)), TRUE)),
     Some(Payload(Some(T("delete_post")), DictOf({"id"}, Str(<<"1">>)), TRUE)),
     Some(Payload(Some(T("ghost")), <<>>, TRUE)),
     Some(WithKeys(Payload(Some(T("get_posts")), <<>>, TRUE), {"confirm"})),
     Some(WithKeys(Payload(None, <<>>, TRUE), {"tool"}))}

Requests ==
    {JsonRpcRequest(Id(TRUE, T("1")), T("tools/call"), p) : p \in CallParams}
    \cup {JsonRpcRequest(i, T("tools/call"), p) : i \in RequestIds, p \in FewCallParams}
    \cup {JsonRpcRequest(i, m, p) :
            i \in RequestIds, m \in Methods \ {T("tools/call")}, p \in OtherParams}

Outcomes ==
    {HttpResponse(200, "json"), HttpResponse(404, "json"), HttpResponse(200, "text"),
     HttpResponse(200, "undecodable"), TimedOut, HttpError}

CatalogSize == IF MaxEndpoints < Len(JSONPLACEHOLDER_ENDPOINTS)
               THEN MaxEndpoints ELSE Len(JSONPLACEHOLDER_ENDPOINTS)

\* The coroutines that run handle_request side by side on one adapter.
Tasks == {"a", "b"}

\* A coroutine's frame: where it is, the request it was given, the context
\* instance its `context` local refers to (0: none), what it returned or
\* raised, the call it is suspended on and what the client answered.
TaskFrame(req, step, ref, answer) ==
    [pc |-> IF step.status = "await" THEN "awaiting" ELSE "done",
     request |-> Some(req), context |-> ref, response |-> step.response,
     raised |-> step.exc, frame |-> step.call, answer |-> answer]

NotStarted ==
    [pc |-> "idle", request |-> None, context |-> 0, response |-> None,
     raised |-> "", frame |-> None, answer |-> None]

NoTasks == [t \in Tasks |-> NotStarted]

-----------------------------------------------------------------------------
(* The state machine.                                                      *)

Init ==
    /\ endpoints = <<>>
    /\ constructed = FALSE
    /\ pc = "idle"
    /\ request = None
    /\ context = None
    /\ response = None
    /\ raised = ""
    /\ frame = None
    /\ sent = <<>>
    /\ answers = <<>>
    /\ heap = <<>>
    /\ last = NoCall
    /\ val_endpoint = JSONPLACEHOLDER_ENDPOINTS[1]
    /\ val_arguments = <<>>
    /\ val_errors = None
    /\ val_tool = None
    /\ val_call = None
    /\ tasks = NoTasks

\* RestToMcpAdapter(base_url, endpoints): the first n descriptors of the
\* catalog, followed by the caller's own
Construct(n, own) ==
    /\ ~constructed
    /\ constructed' = TRUE
    /\ endpoints' = RegisterAll(<<>>, SubSeq(JSONPLACEHOLDER_ENDPOINTS, 1, n) \o own)
    /\ UNCHANGED <<pc, request, context, response, raised, frame, sent, answers>>
    /\ UNCHANGED <<context_vars, validation_vars, task_vars>>

\* adapter.register_endpoint(endpoint), callable whenever no coroutine runs
RegisterEndpoint(endpoint) ==
    /\ constructed
    /\ pc \in {"idle", "awaiting"}
    /\ endpoints' = register_endpoint(endpoints, endpoint)
    /\ UNCHANGED <<constructed, pc, request, context, response, raised, frame, sent, answers>>
    /\ UNCHANGED <<context_vars, validation_vars, task_vars>>

\* What a dispatch has become after a piece of handle_request ran.
Settle(step) ==
    /\ pc' = IF step.status = "await" THEN "awaiting" ELSE "done"
    /\ context' = step.context
    /\ response' = step.response
    /\ raised' = step.exc
    /\ frame' = step.call
    /\ sent' = IF step.status = "await" THEN Append(sent, step.call[1]) ELSE sent

\* await adapter.handle_request(request), up to its first suspension
HandleRequest(req) ==
    /\ constructed
    /\ pc = "idle"
    /\ request' = Some(req)
    /\ Settle(handle_request(endpoints, req))
    /\ UNCHANGED <<endpoints, constructed, answers>>
    /\ UNCHANGED <<context_vars, validation_vars, task_vars>>

\* the HTTP client answers and handle_request runs to its end
ClientResponds(outcome) ==
    /\ pc = "awaiting"
    /\ answers' = Append(answers, outcome)
    /\ Settle(handle_request_resume(request[1], context[1], frame[1], outcome))
    /\ UNCHANGED <<endpoints, constructed, request>>
    /\ UNCHANGED <<context_vars, validation_vars, task_vars>>

\* the caller has taken the result; the adapter serves the next request
Return ==
    /\ pc = "done"
    /\ pc' = "idle"
    /\ request' = None
    /\ context' = None
    /\ response' = None
    /\ raised' = ""
    /\ frame' = None
    /\ sent' = <<>>
    /\ answers' = <<>>
    /\ UNCHANGED <<endpoints, constructed>>
    /\ UNCHANGED <<context_vars, validation_vars, task_vars>>

Next ==
    \/ \E n \in 0..CatalogSize, own \in {<<>>, CALLER_ENDPOINTS} : Construct(n, own)
    \/ \E i \in 1..CatalogSize :
            /\ i <= Len(endpoints) + 1
            /\ RegisterEndpoint(JSONPLACEHOLDER_ENDPOINTS[i])
    \/ \E req \in Requests : HandleRequest(req)
    \/ \E outcome \in Outcomes : ClientResponds(outcome)
    \/ Return

Spec == Init /\ [][Next]_vars

-----------------------------------------------------------------------------
(* ExecutionContext driven directly, by any sequence of calls.             *)

ContextRequests ==
    {JsonRpcRequest(Id(TRUE, T("1")), T("tools/call"), None),
     JsonRpcRequest(Id(FALSE, Pad("")), T("tools/call"), None),
     JsonRpcRequest(Id(FALSE, T("")), T("tools/call"), None),
     JsonRpcRequest(Id(FALSE, T("req-1")), Pad(""), None),
     JsonRpcRequest(Id(FALSE, T("req-1")), T(""), None)}

ContextToolNames == {T("get_post"), Pad("delete_post"), Pad("")}

ContextArguments == {DictOf({"id"}, Str(<<"1">>))}

\* a result argument: None, or one of two ToolCallResults
ContextResults ==
    {None,
     Some(ToolCallResult(<<TextContent("json.dumps", "json")>>, FALSE)),
     Some(ToolCallResult(<<TextContent("HTTP error", "")>>, TRUE))}

ReducedCounts == {-1, 0}

\* the heap and the call record after a call
Called(op, self, req, name, arguments, result, n, outcome) ==
    /\ heap' = outcome.heap
    /\ last' = Call(op, self, req, name, arguments, result, n, outcome)
    /\ UNCHANGED <<gateway_vars, validation_vars, task_vars>>

\* the creation times in the heap: one per context created from a request
Roots == {heap[i].created_at : i \in 1..Len(heap)}

FromRequest(req) ==
    /\ Len(heap) < MaxContexts
    /\ from_request(req).exc = "" => Cardinality(Roots) < MaxRoots
    /\ Called("from_request", 0, Some(req), None, <<>>, None, 0,
              ExecutionContext_from_request(heap, req))

\* ExecutionContext(request.id, request.method): construction by a caller
DirectConstruction(req) ==
    /\ Len(heap) < MaxContexts
    /\ Called("__init__", 0, Some(req), None, <<>>, None, 0,
              ExecutionContext_init(heap, req.id, req.method, FALSE))

WithToolCall(self, name, arguments) ==
    /\ Len(heap) < MaxContexts
    /\ Called("with_tool_call", self, None, Some(name), arguments, None, 0,
              ExecutionContext_with_tool_call(heap, self, name, arguments))

WithResult(self, result) ==
    /\ Len(heap) < MaxContexts
    /\ Called("with_result", self, None, None, <<>>, result, 0,
              ExecutionContext_with_result(heap, self, result))

DiscardResults(self) ==
    /\ Len(heap) < MaxContexts
    /\ Called("discard_results", self, None, None, <<>>, None, 0,
              ExecutionContext_discard_results(heap, self))

Seal(self) ==
    Called("seal", self, None, None, <<>>, None, 0, ExecutionContext_seal(heap, self))

WithReducedResults(self, n) ==
    Called("with_reduced_results", self, None, None, <<>>, None, n,
           ExecutionContext_with_reduced_results(heap, self, n))

ResultCount(self) ==
    Called("result_count", self, None, None, <<>>, None, 0,
           ExecutionContext_result_count(heap, self))

ContextNext ==
    \/ \E req \in ContextRequests : FromRequest(req)
    \/ \E req \in {r \in ContextRequests : r.id.int} : DirectConstruction(req)
    \/ \E self \in 1..Len(heap), name \in ContextToolNames, arguments \in ContextArguments :
            WithToolCall(self, name, arguments)
    \/ \E self \in 1..Len(heap), result \in ContextResults : WithResult(self, result)
    \/ \E self \in 1..Len(heap) : DiscardResults(self)
    \/ \E self \in 1..Len(heap) : Seal(self)
    \/ \E self \in 1..Len(heap), n \in ReducedCounts : WithReducedResults(self, n)
    \/ \E self \in 1..Len(heap) : ResultCount(self)

ContextSpec == Init /\ [][ContextNext]_vars

-----------------------------------------------------------------------------
(* RestEndpoint.validate_arguments and to_mcp_tool applied to descriptors  *)
(* and argument maps of every shape.                                       *)

HttpMethod == {"GET", "POST", "PUT", "DELETE", "PATCH"}

PathParamLists == {<<>>, <<"id">>, <<"id", "postId">>}

QueryParamLists == {<<>>, <<"userId">>}

BodyParamLists == {<<>>, <<"title">>, <<"title", "body">>}

\* the path template of a descriptor with these path parameters
PathTemplate(path_params) ==
    <<Lit("/posts")>> \o [i \in 1..Len(path_params) |-> Hole(path_params[i])]

\* descriptors with disjoint parameter sets, one per shape and verb
Descriptors ==
    {RestEndpoint("tool", PathTemplate(pp), verb, pp, qp, bp, None) :
        pp \in PathParamLists, qp \in QueryParamLists, bp \in BodyParamLists,
        verb \in HttpMethod}

\* the value given for a path parameter: text, blank text, empty text, None,
\* and the text "{postId}" (held as one character)
PathValues == {Str(<<"1">>), Str(<<" ">>), Str(<<>>), PyNone, Str(<<"{postId}">>)}

\* the orders in which a caller may have inserted the keys
KeyOrders ==
    {<<"id", "postId", "userId", "title", "body", "extra", "other">>,
     <<"other", "extra", "body", "title", "userId", "postId", "id">>}

ArgumentsOf(order, keys, id_value) ==
    LET ks == SelectSeq(order, LAMBDA k : k \in keys)
    IN  [i \in 1..Len(ks) |->
            [k |-> ks[i], v |-> IF ks[i] = "id" THEN id_value ELSE Str(<<"x">>)]]

ValidatedArguments ==
    {ArgumentsOf(order, keys, v) :
        order \in KeyOrders, keys \in SUBSET Range(CHOOSE o \in KeyOrders : TRUE),
        v \in PathValues}

ValidationInit ==
    /\ endpoints = <<>>
    /\ constructed = FALSE
    /\ pc = "idle"
    /\ request = None
    /\ context = None
    /\ response = None
    /\ raised = ""
    /\ frame = None
    /\ sent = <<>>
    /\ answers = <<>>
    /\ heap = <<>>
    /\ last = NoCall
    /\ val_endpoint \in Descriptors
    /\ val_arguments \in ValidatedArguments
    /\ val_errors = None
    /\ val_tool = None
    /\ val_call = None
    /\ tasks = NoTasks

\* errors = endpoint.validate_arguments(arguments)
Validate ==
    /\ val_errors' = Some(validate_arguments(val_endpoint, val_arguments))
    /\ UNCHANGED <<val_endpoint, val_arguments, val_tool, val_call>>
    /\ UNCHANGED <<gateway_vars, context_vars, task_vars>>

\* tool = endpoint.to_mcp_tool()
ToMcpTool ==
    /\ val_tool' = Some(to_mcp_tool(val_endpoint))
    /\ UNCHANGED <<val_endpoint, val_arguments, val_errors, val_call>>
    /\ UNCHANGED <<gateway_vars, context_vars, task_vars>>

\* await adapter._call_tool(name, arguments), called directly on an adapter
\* whose registry holds the descriptor, up to the await
CallTool(name) ==
    /\ val_call' = Some(_call_tool_request(<<val_endpoint>>, name, val_arguments))
    /\ UNCHANGED <<val_endpoint, val_arguments, val_errors, val_tool>>
    /\ UNCHANGED <<gateway_vars, context_vars, task_vars>>

ValidationNext ==
    \/ Validate
    \/ ToMcpTool
    \/ \E name \in {val_endpoint.name, T("ghost")} : CallTool(name)

ValidationSpec == ValidationInit /\ [][ValidationNext]_vars

-----------------------------------------------------------------------------
(* Two handle_request coroutines on one adapter.  asyncio runs a coroutine *)
(* until it awaits: a dispatch is one step up to `await                    *)
(* self.client.request(...)` and one from the answer on, and the steps of  *)
(* the two coroutines interleave in any order.  The registry is the one    *)
(* given at construction.                                                  *)

ConcurrentRequests ==
    {JsonRpcRequest(Id(TRUE, T("1")), T("initialize"), None),
     JsonRpcRequest(Id(FALSE, T("req-1")), T("tools/list"), None),
     JsonRpcRequest(Id(FALSE, Pad("")), T("tools/call"),
                    Some(Payload(Some(T("get_posts")), <<>>, TRUE))),
     JsonRpcRequest(Id(TRUE, T("1")), T("tools/call"), None),
     JsonRpcRequest(Id(TRUE, T("1")), T("tools/call"),
                    Some(Payload(Some(T("get_posts")), <<>>, TRUE))),
     JsonRpcRequest(Id(TRUE, T("1")), T("tools/call"),
                    Some(Payload(Some(T("create_post")), <<>>, TRUE))),
     JsonRpcRequest(Id(TRUE, T("1")), T("tools/call"),
                    Some(Payload(Some(T("delete_post")), DictOf({"id"}, Str(<<"0">>)), TRUE))),
     JsonRpcRequest(Id(FALSE, T("req-1")), T("tools/call"),
                    Some(Payload(Some(T("get_post")), DictOf({"id"}, Str(<<"1">>)), TRUE)))}

\* The instance a piece of handle_request leaves its `context` local on,
\* having started from instance ref: a with_* call constructed a new
\* instance, seal() set the flag on the one it was called on.
Stored(h, ref, step) ==
    IF step.context = None THEN [heap |-> h, exc |-> step.exc, ref |-> 0]
    ELSE LET ctx  == step.context[1]
             made == IF [ctx EXCEPT !.sealed = h[ref].sealed] = h[ref]
                     THEN [heap |-> h, exc |-> "", ref |-> ref]
                     ELSE Constructed(h, [ctx EXCEPT !.sealed = FALSE])
         IN  IF ctx.sealed THEN ExecutionContext_seal(made.heap, made.ref) ELSE made

\* a coroutine is given a request and runs handle_request up to its first
\* suspension
TaskCalls(t, req) ==
    /\ constructed
    /\ tasks[t].pc = "idle"
    /\ LET created == ExecutionContext_from_request(heap, req)
           step    == Boundary(IF created.exc # "" THEN Raises(created.exc)
                               ELSE Route(endpoints, req, created.heap[created.ref]))
           kept    == IF created.exc # "" THEN created
                      ELSE Stored(created.heap, created.ref, step)
       IN  /\ heap' = kept.heap
           /\ tasks' = [tasks EXCEPT ![t] = TaskFrame(req, step, kept.ref, None)]
    /\ UNCHANGED <<gateway_vars, last, validation_vars>>

\* the client answers a suspended coroutine, which runs to its end
TaskResumes(t, outcome) ==
    /\ tasks[t].pc = "awaiting"
    /\ LET f    == tasks[t]
           step == handle_request_resume(f.request[1], heap[f.context], f.frame[1], outcome)
           kept == Stored(heap, f.context, step)
       IN  /\ heap' = kept.heap
           /\ tasks' = [tasks EXCEPT ![t] =
                            TaskFrame(f.request[1], step, kept.ref, Some(outcome))]
    /\ UNCHANGED <<gateway_vars, last, validation_vars>>

ConcurrentNext ==
    \/ \E own \in {<<>>, CALLER_ENDPOINTS} : Construct(CatalogSize, own)
    \/ \E t \in Tasks, req \in ConcurrentRequests : TaskCalls(t, req)
    \/ \E t \in Tasks, outcome \in Outcomes : TaskResumes(t, outcome)

ConcurrentSpec == Init /\ [][ConcurrentNext]_vars

-----------------------------------------------------------------------------
(* Vocabulary of the properties.                                           *)

KnownMethods == {T("initialize"), T("tools/list"), T("tools/call")}

\* an integer id, or a string id that is not blank
WellFormedId(id) == id.int \/ id.text # ""

NonBlankMethod(m) == m.text # ""

Finished == pc = "done" /\ request # None

\* handle_request returned (response, context) to its caller
Returned == Finished /\ raised = "" /\ response # None /\ context # None

IsToolsCall == Finished /\ request[1].method = T("tools/call")

\* the payload does not parse as (tool name, argument map)
Malformed(payload) == payload.name = None \/ ~payload.arguments_is_dict

\* a tools/call whose params parsed: its tool name and argument map
ParsedCall ==
    IsToolsCall /\ request[1].params # None /\ ~Malformed(request[1].params[1])

CalledName == request[1].params[1].name[1]

CalledArguments == request[1].params[1].arguments

ErrorWith(code) ==
    Returned /\ response[1].kind = "error" /\ response[1].code = code

PositiveInteger(v) == int(v).exc = "" /\ int(v).n > 0

-----------------------------------------------------------------------------
(* C1: for every request the request model admits, handle_request returns  *)
(* exactly one envelope, success or error, and never raises to its caller. *)
C1_AlwaysOneEnvelope ==
    Finished =>
        /\ raised = ""
        /\ response # None
        /\ response[1].kind \in {"success", "error"}

(* C2: whenever handle_request returns, the context it returns is sealed,  *)
(* on every branch.                                                        *)
C2_ReturnedContextSealed ==
    (Finished /\ raised = "") => (context # None /\ context[1].sealed)

C2_Witness ==
    /\ Returned /\ IsToolsCall
    /\ response[1].kind = "success"
    /\ Len(context[1].results) = 1
    /\ context[1].sealed

(* C3: any failure that leaves handle_request is one of the four taxonomy  *)
(* kinds; anything else is wrapped before it leaves.                       *)
C3_OnlyTaxonomyKindsLeave ==
    (Finished /\ raised # "") => \E kind \in TaxonomyKinds : IsInstance(raised, kind)

(* C4: a delete_post / update_post call that passed validation and whose   *)
(* id does not parse as a positive integer gets an INVALID_PARAMS envelope *)
(* whose message contains "rejected", and the Transport Client is never    *)
(* invoked in that dispatch.                                               *)
C4_GuardRejectsBeforeTransport ==
    ( /\ ParsedCall
      /\ WellFormedId(request[1].id)
      /\ CalledName \in GuardedTools
      /\ CalledName \in Names(endpoints)
      /\ validate_arguments(Lookup(endpoints, CalledName), CalledArguments) = <<>>
      /\ Has(CalledArguments, "id")
      /\ ~PositiveInteger(Get(CalledArguments, "id")) )
    => /\ ErrorWith(INVALID_PARAMS)
       /\ "rejected" \in Range(response[1].message.words)
       /\ sent = <<>>

(* C5: when validate_arguments returns a non-empty list for a tools/call,  *)
(* dispatch returns INVALID_PARAMS whose data carries the tool name and    *)
(* the complete list of errors, the Transport Client is not invoked, and   *)
(* the returned context has the tool bound and no results.                 *)
C5_ValidationFailureReported ==
    ( /\ ParsedCall
      /\ WellFormedId(request[1].id)
      /\ CalledName \in Names(endpoints)
      /\ validate_arguments(Lookup(endpoints, CalledName), CalledArguments) # <<>> )
    => /\ ErrorWith(INVALID_PARAMS)
       /\ response[1].data =
            Some([tool |-> CalledName,
                  errors |-> validate_arguments(Lookup(endpoints, CalledName),
                                                CalledArguments)])
       /\ sent = <<>> /\ answers = <<>>
       /\ context[1].tool_name = Some(CalledName)
       /\ context[1].results = <<>>

C5_Witness ==
    /\ ParsedCall /\ ErrorWith(INVALID_PARAMS)
    /\ response[1].data # None
    /\ CalledName = T("update_post")
    /\ Len(response[1].data[1].errors) >= 3
    /\ context[1].tool_name = Some(T("update_post"))

(* C6: a tools/call naming a tool that is not in the registry returns an   *)
(* INVALID_PARAMS envelope, never invokes the Transport Client, and its    *)
(* context has tool_name bound to the requested name with zero results.    *)
C6_UnknownToolKeepsBinding ==
    (ParsedCall /\ WellFormedId(request[1].id) /\ CalledName \notin Names(endpoints))
    => /\ ErrorWith(INVALID_PARAMS)
       /\ sent = <<>>
       /\ context[1].tool_name = Some(CalledName)
       /\ context[1].results = <<>>

C10_TimeoutReportedOnce ==
    (TimedOut \in Range(answers))
    => /\ ErrorWith(INTERNAL_ERROR)
       /\ response[1].data =
            Some([tool |-> CalledName, timeout_seconds |-> HTTP_TIMEOUT_SECONDS,
                  failure_mode |-> "timeout"])
       /\ context[1].tool_name = Some(CalledName)
       /\ context[1].results = <<>>
       /\ context[1].sealed
       /\ Len(sent) = 1 /\ Len(answers) = 1

C10_Witness ==
    /\ Returned
    /\ answers = <<TimedOut>>
    /\ response[1].kind = "error"
    /\ context[1].tool_name = Some(T("delete_post"))

(* C11: a transport error other than a timeout during a tools/call is not  *)
(* raised: it becomes a result marked isError = true, that result is       *)
(* appended to the context, and dispatch returns a success envelope        *)
(* carrying it.                                                            *)
C11_TransportErrorFolded ==
    (HttpError \in Range(answers))
    => /\ Returned
       /\ response[1].kind = "success"
       /\ response[1].result.isError
       /\ context[1].results = <<response[1].result>>
       /\ context[1].tool_name = Some(CalledName)
       /\ Len(sent) = 1

C11_Witness ==
    /\ Returned
    /\ answers = <<HttpError>>
    /\ response[1].kind = "success"
    /\ response[1].result.isError
    /\ Len(context[1].results) = 1

(* C12: when a tools/call passes lookup, validation and the guard and the  *)
(* outbound call completes, exactly one result is appended to the context  *)
(* (which has the tool bound) and dispatch returns a success envelope      *)
(* whose result is that same tool result.                                  *)
C12_CompletedCallRecordedOnce ==
    (Finished /\ answers # <<>> /\ answers[1].kind = "response")
    => /\ Returned
       /\ response[1].kind = "success"
       /\ context[1].tool_name # None
       /\ Len(context[1].results) = 1
       /\ context[1].results[1] = response[1].result

(* C13: the result of an executed call is marked isError exactly when the  *)
(* upstream response is an error response: status 200 gives isError =      *)
(* false, an error status such as 404 gives isError = true.                *)
C13_ErrorFlagFollowsStatus ==
    ( /\ Returned /\ response[1].kind = "success"
      /\ answers # <<>> /\ answers[1].kind = "response" )
    => (response[1].result.isError <=> answers[1].status >= 400)

(* C14: the mapping from tool name to descriptor is fixed at construction: *)
(* once the adapter is constructed, the registry is the same in every      *)
(* later state.                                                            *)
C14_RegistryFixedAtConstruction ==
    [][constructed => endpoints' = endpoints]_vars

-----------------------------------------------------------------------------
(* Properties of ExecutionContext, under ContextSpec.                      *)

MutatingMethods ==
    {"with_tool_call", "with_result", "discard_results", "with_reduced_results"}

\* the step is a call (not a stuttering step)
Calls == last' # last \/ heap' # heap

(* C15: in every context reachable from from_request by any sequence of    *)
(* with_tool_call, with_result, discard_results and seal calls, a          *)
(* non-empty results sequence implies a non-null tool_name.                *)
C15_NoResultsWithoutTool ==
    \A i \in 1..Len(heap) : heap[i].results # <<>> => heap[i].tool_name # None

C15_Witness ==
    \E i, j \in 1..Len(heap) :
        /\ Len(heap[i].results) = 2
        /\ heap[i].tool_name # None
        /\ heap[j].sealed /\ heap[j].tool_name = None
        /\ last.op = "seal" /\ last.self = j

(* C16: sealing is terminal: after seal() every mutating method on that    *)
(* instance (with_tool_call, with_result, discard_results,                 *)
(* with_reduced_results) fails with ContextError for all arguments, the    *)
(* sealed flag never becomes false again, and tool_name, arguments and     *)
(* results never change.                                                   *)
C16_SealingIsTerminal ==
    [][\A i \in 1..Len(heap) :
          heap[i].sealed =>
            /\ heap'[i] = heap[i]
            /\ (Calls /\ last'.self = i /\ last'.op \in MutatingMethods)
                  => last'.exc = "ContextError"]_vars

(* C17: with_tool_call rejects with ContextError, producing no new         *)
(* context, when the context is sealed, when the name is empty or blank,   *)
(* or when a tool is already bound; along any chain of contexts each       *)
(* produced from the previous one, tool_name never changes once non-null.  *)
C17_ToolBoundOnce ==
    [][Calls =>
        /\ ( /\ last'.op = "with_tool_call"
             /\ \/ heap[last'.self].sealed
                \/ last'.name[1].text = ""
                \/ heap[last'.self].tool_name # None )
           => (last'.exc = "ContextError" /\ last'.ref = 0 /\ heap' = heap)
        /\ ( /\ last'.self > 0 /\ last'.exc = "" /\ last'.ref > 0
             /\ heap[last'.self].tool_name # None )
           => heap'[last'.ref].tool_name = heap[last'.self].tool_name ]_vars

C17_Witness ==
    /\ last.op = "with_tool_call"
    /\ last.exc = "ContextError"
    /\ last.name = Some(Pad("delete_post"))
    /\ ~heap[last.self].sealed
    /\ heap[last.self].tool_name = Some(T("get_post"))
    /\ heap[last.self].results # <<>>

(* C18: every mutating operation returns a new context and never mutates   *)
(* in place: after with_tool_call, with_result or discard_results          *)
(* succeeds, the receiver's fields are what they were before and the       *)
(* returned context is a different instance.                               *)
C18_ReceiverUntouched ==
    [][( /\ Calls
         /\ last'.op \in {"with_tool_call", "with_result", "discard_results"}
         /\ last'.exc = "" )
       => /\ heap'[last'.self] = heap[last'.self]
          /\ last'.ref # last'.self
          /\ last'.ref \notin 1..Len(heap)
          /\ \A i \in 1..Len(heap) : heap'[i] = heap[i] ]_vars

C18_Witness ==
    /\ last.op = "discard_results" /\ last.exc = ""
    /\ heap[last.self].results # <<>>
    /\ last.ref # last.self
    /\ heap[last.ref].results = <<>>

(* C19: with_result on an unsealed, tool-bound context with a non-null     *)
(* result returns a context whose results are the receiver's results       *)
(* followed by the new result; it fails with ContextError if sealed, if    *)
(* no tool is bound, or if the result is null.                             *)
C19_ResultAppended ==
    (last.op = "with_result") =>
        LET self == heap[last.self] IN
        IF self.sealed \/ self.tool_name = None \/ last.result = None
        THEN last.exc = "ContextError" /\ last.ref = 0
        ELSE /\ last.exc = "" /\ last.ref > 0
             /\ heap[last.ref].results = self.results \o <<last.result[1]>>
             /\ Len(heap[last.ref].results) = Len(self.results) + 1
             /\ \A k \in 1..Len(self.results) :
                    heap[last.ref].results[k] = self.results[k]

C19_Witness ==
    /\ last.op = "with_result" /\ last.exc = ""
    /\ Len(heap[last.self].results) = 1
    /\ Len(heap[last.ref].results) = 2
    /\ heap[last.ref].results[1] # heap[last.ref].results[2]

(* C20: with_reduced_results(n) on an unsealed context returns a new       *)
(* context that keeps only the n most recent results in their order (n =   *)
(* 0 leaves none), fails with ContextError for negative n and for a sealed *)
(* context; result_count() equals the number of accumulated results.       *)
C20_ReducedResultsKeepsMostRecent ==
    /\ (last.op = "with_reduced_results") =>
         LET self == heap[last.self]
             kept == IF last.n < Len(self.results) THEN last.n ELSE Len(self.results)
         IN  IF self.sealed \/ last.n < 0
             THEN last.exc = "ContextError"
             ELSE /\ last.exc = "" /\ last.ref > 0
                  /\ heap[last.ref].results =
                        SubSeq(self.results, Len(self.results) - kept + 1,
                               Len(self.results))
    /\ (last.op = "result_count") => last.exc = ""

(* C21: discard_results on an unsealed context returns a new unsealed      *)
(* context with empty results and the same request_id, method, tool_name,  *)
(* arguments and creation time; no later operation brings the discarded    *)
(* results back (the results of a produced context come from its           *)
(* receiver's results and the result given, nothing else); on a sealed     *)
(* context it fails with ContextError.                                     *)
C21_DiscardIsIrreversible ==
    [][Calls =>
        /\ (last'.op = "discard_results") =>
              LET self == heap[last'.self] IN
              IF self.sealed
              THEN last'.exc = "ContextError" /\ last'.ref = 0 /\ heap' = heap
              ELSE /\ last'.exc = ""
                   /\ last'.ref \notin 1..Len(heap)
                   /\ heap'[last'.ref] = [self EXCEPT !.results = <<>>]
                   /\ ~heap'[last'.ref].sealed
        /\ (last'.exc = "" /\ last'.self > 0 /\ last'.ref # last'.self) =>
              LET old == heap[last'.self].results
                  new == heap'[last'.ref].results
              IN  \/ new = <<>>
                  \/ new = old
                  \/ last'.result # None /\ new = Append(old, last'.result[1]) ]_vars

C21_Witness ==
    /\ last.op = "discard_results" /\ last.exc = ""
    /\ Len(heap[last.self].results) = 1
    /\ heap[last.ref].results = <<>>
    /\ heap[last.ref].tool_name = Some(T("delete_post"))
    /\ heap[last.ref].created_at = heap[1].created_at
    /\ last.ref = 4

(* C22: a context comes into existence only through from_request: direct   *)
(* construction fails with ContextError, and from_request fails with       *)
(* ContextError, creating nothing, when the request id is an empty or      *)
(* whitespace-only string or the method is empty or whitespace-only;       *)
(* otherwise it returns a context with the request's id and method, no     *)
(* tool, empty arguments, empty results and sealed = false.                *)
C22_SingleCreationPath ==
    [][Calls =>
        /\ (last'.op = "__init__") => (last'.exc = "ContextError" /\ heap' = heap)
        /\ (last'.op = "from_request") =>
              LET req == last'.request[1] IN
              IF (~req.id.int /\ req.id.text = "") \/ req.method.text = ""
              THEN last'.exc = "ContextError" /\ last'.ref = 0 /\ heap' = heap
              ELSE /\ last'.exc = ""
                   /\ last'.ref = Len(heap) + 1
                   /\ heap'[last'.ref].request_id = req.id
                   /\ heap'[last'.ref].method = req.method
                   /\ heap'[last'.ref].tool_name = None
                   /\ heap'[last'.ref].arguments = <<>>
                   /\ heap'[last'.ref].results = <<>>
                   /\ ~heap'[last'.ref].sealed
        /\ (Len(heap') > Len(heap)) =>
              /\ last'.exc = ""
              /\ last'.op \in {"from_request", "with_tool_call", "with_result",
                                "discard_results"} ]_vars

C22_Witness ==
    /\ last.op = "__init__" /\ last.exc = "ContextError"
    /\ Len(heap) = 1
    /\ heap[1].request_id = Id(TRUE, T("1"))
    /\ heap[1].tool_name = None /\ ~heap[1].sealed

-----------------------------------------------------------------------------
(* Properties of validate_arguments and to_mcp_tool, under ValidationSpec. *)

\* the accepted-argument surface of a descriptor
Accepted(d) == Range(d.path_params) \cup Range(d.query_params) \cup Range(d.body_params)

StateChanging(d) == d.method \in {"POST", "PUT", "PATCH"}

\* how often e occurs in the list
Occurrences(list, e) == Cardinality({i \in 1..Len(list) : list[i] = e})

\* the value given for p is blank once converted to a string and trimmed
BlankValue(args, p) ==
    LET v == Get(args, p) IN v.t = "str" /\ \A i \in 1..Len(v.s) : v.s[i] = " "

ArgumentKeys(args) == [i \in 1..Len(args) |-> args[i].k]

(* C23: validate_arguments reports exactly one 'Unknown argument' error    *)
(* naming the key for every argument key outside the union of the path,    *)
(* query and body parameter sets, and none for a key inside the union.     *)
C23_UnknownArgumentsRejected ==
    (val_errors # None) =>
        /\ \A key \in Keys(val_arguments) :
              Occurrences(val_errors[1], [kind |-> "Unknown argument", param |-> key])
                = IF key \in Accepted(val_endpoint) THEN 0 ELSE 1
        /\ \A i \in 1..Len(val_errors[1]) :
              val_errors[1][i].kind = "Unknown argument"
                => val_errors[1][i].param \in Keys(val_arguments) \ Accepted(val_endpoint)

C23_Witness ==
    /\ val_errors # None
    /\ val_endpoint.path_params = <<"id">>
    /\ val_endpoint.query_params = <<>> /\ val_endpoint.body_params = <<>>
    /\ val_endpoint.method = "GET"
    /\ ArgumentKeys(val_arguments) = <<"id", "extra">>
    /\ Get(val_arguments, "id") = Str(<<"1">>)
    /\ val_errors[1] = <<[kind |-> "Unknown argument", param |-> "extra"]>>

(* C24: validate_arguments collects every failure: one entry per unknown   *)
(* argument key (in the order of the map), then one per path parameter     *)
(* that is missing or blank after trimming (in declaration order), then,   *)
(* for POST/PUT/PATCH only, one per missing body parameter, in that order; *)
(* the list is empty exactly when there is no such failure.                *)
C24_EveryFailureCollected ==
    (val_errors # None) =>
        LET d       == val_endpoint
            args    == val_arguments
            unknown == SelectSeq(ArgumentKeys(args), LAMBDA k : k \notin Accepted(d))
            badpath == SelectSeq(d.path_params,
                           LAMBDA p : ~Has(args, p) \/ BlankValue(args, p))
            nobody  == IF StateChanging(d)
                       THEN SelectSeq(d.body_params, LAMBDA p : ~Has(args, p))
                       ELSE <<>>
        IN  /\ val_errors[1] =
                  [i \in 1..Len(unknown) |->
                      [kind |-> "Unknown argument", param |-> unknown[i]]]
                  \o [i \in 1..Len(badpath) |->
                      [kind |-> IF Has(args, badpath[i])
                                THEN "Path parameter cannot be empty"
                                ELSE "Missing required path parameter",
                       param |-> badpath[i]]]
                  \o [i \in 1..Len(nobody) |->
                      [kind |-> "Missing required body parameter", param |-> nobody[i]]]
            /\ (val_errors[1] = <<>>) <=>
                  (unknown = <<>> /\ badpath = <<>> /\ nobody = <<>>)

C24_Witness ==
    /\ val_errors # None
    /\ Len(val_errors[1]) = 6
    /\ val_errors[1][1].param = "other" /\ val_errors[1][2].param = "extra"
    /\ val_errors[1][3].kind = "Path parameter cannot be empty"
    /\ val_errors[1][4].kind = "Missing required path parameter"
    /\ val_errors[1][5].kind = "Missing required body parameter"

(* C26: a missing query parameter never produces a validation error; a     *)
(* missing declared body parameter produces an error if and only if the    *)
(* verb is POST, PUT or PATCH.                                             *)
C26_RequirednessByClassAndVerb ==
    (val_errors # None) =>
        /\ \A q \in Range(val_endpoint.query_params) \ Keys(val_arguments) :
              \A i \in 1..Len(val_errors[1]) : val_errors[1][i].param # q
        /\ \A b \in Range(val_endpoint.body_params) \ Keys(val_arguments) :
              (\E i \in 1..Len(val_errors[1]) : val_errors[1][i].param = b)
                <=> StateChanging(val_endpoint)

C26_Witness ==
    /\ val_errors = Some(<<>>)
    /\ val_endpoint.method = "DELETE"
    /\ val_endpoint.body_params = <<"title", "body">>
    /\ val_endpoint.query_params = <<"userId">>
    /\ val_arguments = <<>>

(* C27: the schema to_mcp_tool builds has exactly the union of the path,   *)
(* query and body parameters as properties, each typed string; its         *)
(* required list is the path parameters followed by the body parameters    *)
(* when the verb is POST/PUT/PATCH and the path parameters alone           *)
(* otherwise; query parameters are never required.                         *)
C27_SchemaFollowsDescriptor ==
    (val_tool # None) =>
        LET schema == val_tool[1].inputSchema IN
        /\ val_tool[1].name = val_endpoint.name
        /\ Keys(schema.properties) = Accepted(val_endpoint)
        /\ Len(schema.properties) = Cardinality(Accepted(val_endpoint))
        /\ \A i \in 1..Len(schema.properties) : schema.properties[i].v.type = "string"
        /\ schema.required =
              IF StateChanging(val_endpoint)
              THEN val_endpoint.path_params \o val_endpoint.body_params
              ELSE val_endpoint.path_params
        /\ Range(schema.required) \cap Range(val_endpoint.query_params) = {}

C27_Witness ==
    /\ val_tool # None
    /\ val_endpoint.method = "GET"
    /\ val_endpoint.path_params = <<"id", "postId">>
    /\ val_endpoint.query_params = <<"userId">>
    /\ val_endpoint.body_params = <<"title", "body">>
    /\ val_tool[1].inputSchema.required = <<"id", "postId">>
    /\ Len(val_tool[1].inputSchema.properties) = 5

-----------------------------------------------------------------------------
(* Properties of one dispatch and the Transport Client.                    *)

\* the dispatch is a tools/call that passed lookup, validation and the
\* destructive guard
Cleared ==
    /\ ParsedCall
    /\ WellFormedId(request[1].id)
    /\ CalledName \in Names(endpoints)
    /\ validate_arguments(Lookup(endpoints, CalledName), CalledArguments) = <<>>
    /\ _check_destructive_operation(CalledName, CalledArguments) = Yield(None)

(* C28: each dispatch invokes the Transport Client at most once: exactly   *)
(* once when a tools/call has passed lookup, validation and the            *)
(* destructive guard, and zero times otherwise; a timeout or connectivity  *)
(* failure is never followed by a second invocation.                       *)
C28_TransportInvokedOncePerClearedCall ==
    /\ Len(sent) <= 1
    /\ Len(answers) <= Len(sent)
    /\ Finished => Len(sent) = (IF Cleared THEN 1 ELSE 0)

(* C30: a tools/call whose params carry any key other than name and        *)
(* arguments is answered with INVALID_PARAMS and is not executed.          *)
C30_UndeclaredFieldsRejected ==
    ( /\ IsToolsCall
      /\ WellFormedId(request[1].id)
      /\ request[1].params # None
      /\ request[1].params[1].undeclared # {} )
    => /\ ErrorWith(INVALID_PARAMS)
       /\ sent = <<>>

-----------------------------------------------------------------------------
(* Properties of concurrent dispatch, under ConcurrentSpec.                *)

\* what handle_request returns for the request when it runs alone on the
\* adapter, as far as the coroutine has got, with the same client answer
Alone(req, answer) ==
    LET first == handle_request(endpoints, req)
    IN  IF first.status = "await" /\ answer # None
        THEN handle_request_resume(req, first.context[1], first.call[1], answer[1])
        ELSE first

\* what a context holds, its time of creation aside
Content(ctx) ==
    [request_id |-> ctx.request_id, method |-> ctx.method, tool_name |-> ctx.tool_name,
     arguments |-> ctx.arguments, results |-> ctx.results, sealed |-> ctx.sealed]

Started == {t \in Tasks : tasks[t].pc # "idle"}

(* C29: under any interleaving of two handle_request calls on one adapter, *)
(* no context instance is shared between them, and each call returns the   *)
(* response and the sealed context it would return if it ran alone         *)
(* against the same answer of the client.                                  *)
C29_ConcurrentDispatchesIndependent ==
    /\ \A t, u \in Started :
          (t # u /\ tasks[t].context # 0) => tasks[t].context # tasks[u].context
    /\ \A t \in Started :
          LET f     == tasks[t]
              alone == Alone(f.request[1], f.answer)
          IN  /\ f.pc = (IF alone.status = "await" THEN "awaiting" ELSE "done")
              /\ f.response = alone.response
              /\ f.raised = alone.exc
              /\ f.frame = alone.call
              /\ (alone.context = None) <=> (f.context = 0)
              /\ alone.context # None =>
                    Content(heap[f.context]) = Content(alone.context[1])

\* both calls were suspended at once: "a" began first and ended last
C29_Witness ==
    /\ \A t \in Tasks :
          /\ tasks[t].pc = "done" /\ tasks[t].answer # None
          /\ tasks[t].response # None /\ tasks[t].response[1].kind = "success"
          /\ heap[tasks[t].context].sealed
          /\ Len(heap[tasks[t].context].results) = 1
    /\ tasks["a"].request = tasks["b"].request
    /\ heap[tasks["a"].context].created_at < heap[tasks["b"].context].created_at
    /\ tasks["a"].context > tasks["b"].context

-----------------------------------------------------------------------------
(* Properties of the executor: building and issuing the outbound call.     *)

(* C31: for every registered descriptor, of any verb, and every argument   *)
(* map that validate_arguments accepts and the destructive guard passes,   *)
(* building the URL, query and body raises no ContractViolation and the    *)
(* tools/call reaches the Transport Client.                                *)
C31_ValidationSufficesForExecution ==
    (Finished /\ Cleared) => (raised # "ContractViolation" /\ sent # <<>> /\ answers # <<>>)

\* the path template with every placeholder of a declared path parameter
\* replaced by the string form of its argument
Filled(d, args) ==
    [i \in 1..Len(d.path) |->
        IF d.path[i].kind = "hole" /\ d.path[i].s \in Range(d.path_params)
        THEN [kind |-> "val", s |-> "", v |-> str(Get(args, d.path[i].s))]
        ELSE d.path[i]]

(* C32: if a declared path parameter is absent from the arguments the      *)
(* executor raises ContractViolation, with nothing substituted and no      *)
(* outbound call; if all are present, every placeholder of a declared path *)
(* parameter is replaced by the string form of its argument.               *)
C32_UrlNeverPartiallySubstituted ==
    (val_call # None) =>
        LET call    == val_call[1]
            missing == Range(val_endpoint.path_params) \ Keys(val_arguments)
        IN  /\ (missing # {}) => (call.exc = "ContractViolation" /\ call.value = <<>>)
            /\ (call.exc = "") =>
                  call.value.url.path = Filled(val_endpoint, val_arguments)

(* C33: the outbound request carries only declared parameters: the query   *)
(* holds exactly the declared query parameters present in the arguments,   *)
(* values verbatim; the body is absent when no body parameter is declared  *)
(* and otherwise holds exactly the declared body parameters; no other      *)
(* argument and no path parameter appears in either.                       *)
C33_OnlyDeclaredParametersSent ==
    (val_call # None /\ val_call[1].exc = "") =>
        LET call  == val_call[1].value
            d     == val_endpoint
            args  == val_arguments
            query == IF call.params = None THEN <<>> ELSE call.params[1]
            body  == IF call.json = None THEN <<>> ELSE call.json[1]
        IN  /\ Range(query) =
                  {[k |-> q, v |-> Get(args, q)] : q \in Range(d.query_params) \cap Keys(args)}
            /\ Len(query) = Cardinality(Range(d.query_params) \cap Keys(args))
            /\ (call.json = None) <=> (d.body_params = <<>>)
            /\ Range(body) = {[k |-> b, v |-> Get(args, b)] : b \in Range(d.body_params)}
            /\ Len(body) = Len(d.body_params)
            /\ (Keys(query) \cup Keys(body)) \cap Range(d.path_params) = {}
            /\ (Keys(query) \cup Keys(body)) \subseteq Accepted(d)

C33_Witness ==
    /\ val_call # None /\ val_call[1].exc = ""
    /\ val_endpoint.method = "GET"
    /\ val_endpoint.path_params = <<"id">>
    /\ ArgumentKeys(val_arguments) = <<"other", "extra", "body", "title", "userId", "id">>
    /\ val_call[1].value.params = Some(<<[k |-> "userId", v |-> Str(<<"x">>)]>>)
    /\ val_call[1].value.json # None
    /\ Keys(val_call[1].value.json[1]) = {"title", "body"}

-----------------------------------------------------------------------------
(* Further properties of ExecutionContext, under ContextSpec.              *)

(* C35: among all contexts derived from one from_request root by any       *)
(* sequence of with_tool_call, with_result, discard_results and seal calls *)
(* on any context of the family, at most one distinct tool_name is bound.  *)
C35_OneToolPerRequest ==
    \A i, j \in 1..Len(heap) :
        ( /\ heap[i].created_at = heap[j].created_at
          /\ heap[i].request_id = heap[j].request_id
          /\ heap[i].tool_name # None /\ heap[j].tool_name # None )
        => heap[i].tool_name = heap[j].tool_name

(* C36: seal() returns the instance it was called on with sealed = true    *)
(* and nothing else changed, on that instance or any other; sealing a      *)
(* sealed context leaves it as it is; a context produced by with_tool_call,*)
(* with_result or discard_results starts unsealed.                         *)
C36_SealChangesTheFlagOnly ==
    [][Calls =>
        /\ (last'.op = "seal") =>
              /\ last'.exc = "" /\ last'.ref = last'.self
              /\ heap' = [heap EXCEPT ![last'.self].sealed = TRUE]
              /\ heap[last'.self].sealed => heap' = heap
        /\ ( /\ last'.op \in {"with_tool_call", "with_result", "discard_results"}
             /\ last'.exc = "" )
           => ~heap'[last'.ref].sealed ]_vars

C36_Witness ==
    /\ last.op = "seal" /\ last.exc = "" /\ last.ref = last.self
    /\ heap[last.self].sealed
    /\ heap[last.self].tool_name = Some(T("delete_post"))
    /\ Len(heap[last.self].results) = 1
    /\ \E i \in 1..Len(heap) : i # last.self /\ ~heap[i].sealed

-----------------------------------------------------------------------------
(* Further properties of dispatch, under Spec.                             *)

(* C37: after a tools/call whose params parsed, the returned context's     *)
(* tool_name is the tool name given in the request and its arguments are   *)
(* the request's argument map.                                             *)
C37_ContextReportsTheCall ==
    (ParsedCall /\ Returned)
    => /\ context[1].tool_name = Some(CalledName)
       /\ context[1].arguments = CalledArguments

(* C38: every envelope handle_request returns carries the request's id;    *)
(* the returned context has the request's id and method; it holds exactly  *)
(* one result when a tools/call returned a success envelope and none in    *)
(* every other case, and no tool is bound outside tools/call.              *)
C38_ResponseAndContextAgree ==
    Returned =>
        /\ response[1].id = request[1].id
        /\ context[1].request_id = request[1].id
        /\ context[1].method = request[1].method
        /\ Len(context[1].results) =
              (IF IsToolsCall /\ response[1].kind = "success" THEN 1 ELSE 0)
        /\ ~IsToolsCall => context[1].tool_name = None

C38_Witness ==
    /\ Returned /\ IsToolsCall
    /\ request[1].id = Id(FALSE, T("req-1"))
    /\ response[1].kind = "error" /\ response[1].id = Id(FALSE, T("req-1"))
    /\ context[1].tool_name = Some(T("delete_post"))
    /\ context[1].results = <<>>

-----------------------------------------------------------------------------
(* The schema and the validator, under ValidationSpec.                     *)

(* C39: validate_arguments returns an empty list if and only if every key  *)
(* of the map is a property of to_mcp_tool's schema, every name in the     *)
(* schema's required list is present in the map, and every path            *)
(* parameter's value is non-blank after string conversion and trimming.    *)
C39_SchemaAndValidatorAgree ==
    (val_errors # None /\ val_tool # None) =>
        LET schema == val_tool[1].inputSchema IN
        (val_errors[1] = <<>>) <=>
            /\ Keys(val_arguments) \subseteq Keys(schema.properties)
            /\ Range(schema.required) \subseteq Keys(val_arguments)
            /\ \A p \in Range(val_endpoint.path_params) \cap Keys(val_arguments) :
                  ~BlankValue(val_arguments, p)

C39_Witness ==
    /\ val_errors = Some(<<>>) /\ val_tool # None
    /\ val_endpoint.method = "PUT"
    /\ val_tool[1].inputSchema.required = <<"id", "title">>
    /\ ArgumentKeys(val_arguments) = <<"title", "userId", "id">>
    /\ Get(val_arguments, "id") = Str(<<"1">>)

-----------------------------------------------------------------------------
(* The destructive guard, under Spec.                                      *)

\* a tools/call that passed lookup and validation
Validated ==
    /\ ParsedCall
    /\ WellFormedId(request[1].id)
    /\ CalledName \in Names(endpoints)
    /\ validate_arguments(Lookup(endpoints, CalledName), CalledArguments) = <<>>

\* the dispatch was answered with the guard's rejection
Blocked ==
    /\ ErrorWith(INVALID_PARAMS)
    /\ "rejected" \in Range(response[1].message.words)

\* the dispatch went on to the executor
Executed == sent # <<>> \/ raised = "ContractViolation"

(* C40: the guard blocks only calls of delete_post and update_post; it     *)
(* lets them through exactly when the id argument converts to an integer   *)
(* greater than 0 and lets every other tool through whatever its verb and  *)
(* arguments; it runs only after validation has passed, and a blocked call *)
(* keeps its arguments and its context (tool bound, no result).            *)
C40_GuardIsNameBased ==
    /\ Blocked =>
          /\ Validated
          /\ CalledName \in {T("delete_post"), T("update_post")}
          /\ sent = <<>>
          /\ context[1].tool_name = Some(CalledName)
          /\ context[1].arguments = CalledArguments
          /\ context[1].results = <<>>
    /\ (Finished /\ Validated) =>
          (Executed <=>
              \/ CalledName \notin {T("delete_post"), T("update_post")}
              \/ PositiveInteger(Get(CalledArguments, "id")))

C40_Witness ==
    /\ Finished /\ Validated /\ Executed
    /\ CalledName = T("delete_post")
    /\ Get(CalledArguments, "id") = Str(<<" ", "4", "2">>)
    /\ Len(sent) = 1 /\ sent[1].method = "DELETE"

====
